---- MODULE Spec2Model ----
(***************************************************************************)
(* A model of scripts/parse_unpriv_logs.py: the line normaliser, the text  *)
(* clamp, the test block parser, the failure context collector, the log    *)
(* entry builder and main's loop over the log files.                       *)
(*                                                                         *)
(* Text is modelled by TLA+ strings, character by character (Len, SubSeq   *)
(* and \o on strings).  A TLA+ string holds the code points U+0001..U+00FF *)
(* except U+0060, so the four code points of the script above U+00FF are   *)
(* written with four characters of that range, which then stand for them   *)
(* everywhere (their own code points U+0024, U+0021, U+007E and U+005E are *)
(* not part of the model's alphabet):                                      *)
(*     "$"  U+2713 (passed)    "!"  U+2717 (failed)                        *)
(*     "~"  U+229D (skipped)   "^"  U+FEFF (byte-order mark)               *)
(* The alphabet of the model is these 254 characters; text with other code *)
(* points (whitespace, digits and capitals above U+00FF) is not modelled.  *)
(* Indices idx, lookahead and last_idx keep Python's 0-based values; the   *)
(* message at Python index i is messages[i + 1].                           *)
(***************************************************************************)
EXTENDS Integers, Sequences, FiniteSets, TLC

(***************************************************************************)
(* Python's str methods                                                    *)
(***************************************************************************)
\* F(v) and F(v, w), with the arguments evaluated once
Strict(v, F(_)) == CHOOSE r \in {F(x) : x \in {v}} : TRUE

Strict2(v, w, F(_, _)) == CHOOSE r \in {F(x, y) : x \in {v}, y \in {w}} : TRUE

Char(s, i) == SubSeq(s, i, i)

Digits == {"0", "1", "2", "3", "4", "5", "6", "7", "8", "9"}

\* str.isspace of a character, which str.strip, str.lstrip, str.rstrip and \s of re
\* use: U+0009..U+000D, U+001C..U+0020, U+0085 and U+00A0, in this order
IsSpace(c) ==
    c \in {"\t", "\n", "", "\f", "\r", "",
           "", "", "", " ", "", " "}

Min(a, b) == IF a < b THEN a ELSE b

Max(a, b) == IF a > b THEN a ELSE b

\* s[from:] with a 0-based from, as Python slices
SliceFrom(s, from) == Strict(s, LAMBDA t : SubSeq(t, from + 1, Len(t)))

\* s[:to] with a 0-based exclusive end
SliceTo(s, to) == Strict(s, LAMBDA t : SubSeq(t, 1, Min(to, Len(t))))

AllSpace(s) == \A i \in 1..Len(s) : IsSpace(Char(s, i))

str_lstrip(s) ==
    Strict(s, LAMBDA t :
        IF AllSpace(t) THEN ""
        ELSE LET k == CHOOSE i \in 1..Len(t) :
                         /\ ~IsSpace(Char(t, i))
                         /\ \A j \in 1..(i - 1) : IsSpace(Char(t, j))
             IN  SubSeq(t, k, Len(t)))

str_rstrip(s) ==
    Strict(s, LAMBDA t :
        IF AllSpace(t) THEN ""
        ELSE LET k == CHOOSE i \in 1..Len(t) :
                         /\ ~IsSpace(Char(t, i))
                         /\ \A j \in (i + 1)..Len(t) : IsSpace(Char(t, j))
             IN  SubSeq(t, 1, k))

str_strip(s) == str_lstrip(str_rstrip(s))

str_startswith(s, p) ==
    Strict2(s, p, LAMBDA t, q : Len(t) >= Len(q) /\ SubSeq(t, 1, Len(q)) = q)

\* s.startswith(tuple): any of the prefixes
str_startswith_any(s, ps) == Strict(s, LAMBDA t : \E p \in ps : str_startswith(t, p))

\* s.find(sub) + 1: the 1-based position of the first occurrence, 0 if none
str_find(s, sub) ==
    Strict2(s, sub, LAMBDA t, u :
        LET hits == {i \in 1..(Len(t) - Len(u) + 1) : SubSeq(t, i, i + Len(u) - 1) = u}
        IN  IF hits = {} THEN 0 ELSE CHOOSE i \in hits : \A j \in hits : i <= j)

\* sub in s
str_contains(s, sub) == str_find(s, sub) # 0

\* s.split(sep, 1) when sep occurs in s: <<before, after>>
str_split1(s, sep) ==
    Strict2(s, str_find(s, sep), LAMBDA t, k :
        <<SubSeq(t, 1, k - 1), SubSeq(t, k + Len(sep), Len(t))>>)

\* s.rstrip(":")
str_rstrip_colon(s) ==
    Strict(s, LAMBDA t :
        LET k == CHOOSE i \in 0..Len(t) :
                     /\ (i > 0 => Char(t, i) # ":")
                     /\ \A j \in (i + 1)..Len(t) : Char(t, j) = ":"
        IN  SubSeq(t, 1, k))

\* the characters str.lower changes: A..Z, and U+00C0..U+00DE without U+00D7
UpperCase ==
    <<"A", "B", "C", "D", "E", "F", "G", "H", "I", "J", "K", "L", "M",
      "N", "O", "P", "Q", "R", "S", "T", "U", "V", "W", "X", "Y", "Z",
      "À", "Á", "Â", "Ã", "Ä", "Å", "Æ", "Ç", "È", "É", "Ê", "Ë", "Ì",
      "Í", "Î", "Ï", "Ð", "Ñ", "Ò", "Ó", "Ô", "Õ", "Ö", "Ø", "Ù", "Ú",
      "Û", "Ü", "Ý", "Þ">>

\* what it changes them to: the code point 32 higher
LowerCase ==
    <<"a", "b", "c", "d", "e", "f", "g", "h", "i", "j", "k", "l", "m",
      "n", "o", "p", "q", "r", "s", "t", "u", "v", "w", "x", "y", "z",
      "à", "á", "â", "ã", "ä", "å", "æ", "ç", "è", "é", "ê", "ë", "ì",
      "í", "î", "ï", "ð", "ñ", "ò", "ó", "ô", "õ", "ö", "ø", "ù", "ú",
      "û", "ü", "ý", "þ">>

LowerChar(c) ==
    IF \E i \in DOMAIN UpperCase : UpperCase[i] = c
    THEN LowerCase[CHOOSE i \in DOMAIN UpperCase : UpperCase[i] = c]
    ELSE c

str_lower(s) ==
    Strict(s, LAMBDA t :
        LET Low[i \in 0..Len(t)] == IF i = 0 THEN "" ELSE Low[i - 1] \o LowerChar(Char(t, i))
        IN  Low[Len(t)])

\* s.replace(c, "") for a single character c
str_remove(s, c) ==
    Strict(s, LAMBDA t :
        LET Kept[i \in 0..Len(t)] ==
                IF i = 0 THEN ""
                ELSE Kept[i - 1] \o (IF Char(t, i) = c THEN "" ELSE Char(t, i))
        IN  Kept[Len(t)])

\* sep.join(parts)
str_join(sep, parts) ==
    Strict(parts, LAMBDA ps :
        LET Joined[i \in 0..Len(ps)] ==
                IF i = 0 THEN ""
                ELSE IF i = 1 THEN ps[1]
                ELSE Joined[i - 1] \o sep \o ps[i]
        IN  Joined[Len(ps)])

DigitValue(c) == CHOOSE d \in 0..9 : <<"0", "1", "2", "3", "4", "5", "6", "7", "8", "9">>[d + 1] = c

RECURSIVE str_of_nat(_)
str_of_nat(n) ==
    IF n < 10 THEN <<"0", "1", "2", "3", "4", "5", "6", "7", "8", "9">>[n + 1]
    ELSE str_of_nat(n \div 10) \o str_of_nat(n % 10)

\* sys.get_int_max_str_digits(): the most digits int(str) converts (CPython's default)
INT_MAX_STR_DIGITS == 4300

\* int(v) succeeds: an optional sign, then digits, single underscores allowed
\* between digits, and no more than INT_MAX_STR_DIGITS digits (v is already stripped)
int_ok(v) ==
    Strict(IF Len(v) > 0 /\ Char(v, 1) \in {"+", "-"} THEN SubSeq(v, 2, Len(v)) ELSE v,
           LAMBDA body :
        /\ Len(body) > 0
        /\ \A i \in 1..Len(body) : Char(body, i) \in Digits \cup {"_"}
        /\ Char(body, 1) \in Digits
        /\ Char(body, Len(body)) \in Digits
        /\ \A i \in 1..(Len(body) - 1) : ~(Char(body, i) = "_" /\ Char(body, i + 1) = "_")
        /\ \/ Len(body) <= INT_MAX_STR_DIGITS
           \/ Cardinality({i \in 1..Len(body) : Char(body, i) \in Digits}) <= INT_MAX_STR_DIGITS)

nat_of_digits(s) ==
    Strict(s, LAMBDA t :
        LET Value[i \in 0..Len(t)] ==
                IF i = 0 THEN 0 ELSE Value[i - 1] * 10 + DigitValue(Char(t, i))
        IN  Value[Len(t)])

int_value(v) ==
    Strict(v, LAMBDA t :
        LET neg  == Char(t, 1) = "-"
            body == IF Char(t, 1) \in {"+", "-"} THEN SubSeq(t, 2, Len(t)) ELSE t
            n    == nat_of_digits(str_remove(body, "_"))
        IN  IF neg THEN 0 - n ELSE n)

\* s.endswith(p)
str_endswith(s, p) == Len(s) >= Len(p) /\ SubSeq(s, Len(s) - Len(p) + 1, Len(s)) = p

\* The characters U+0001..U+005F and U+0061..U+00FF in code-point order
LatinLow ==
    "\t\n\f\r !\"#$%&'()*+,-./0123456789:;<=>?@ABCDEFGHIJKLMNOPQRSTUVWXYZ[\\]^_"

LatinHigh ==
    "abcdefghijklmnopqrstuvwxyz{|}~ ¡¢£¤¥¦§¨©ª«¬­®¯°±²³´µ¶·¸¹º»¼½¾¿ÀÁÂÃÄÅÆÇÈÉÊËÌÍÎÏÐÑÒÓÔÕÖ×ØÙÚÛÜÝÞßàáâãäåæçèéêëìíîïðñòóôõö÷øùúûüýþÿ"

\* ord(c); the four characters that stand for code points above U+00FF have those
ord(c) ==
    IF c = "$" THEN 10003
    ELSE IF c = "!" THEN 10007
    ELSE IF c = "~" THEN 8861
    ELSE IF c = "^" THEN 65279
    ELSE IF str_find(LatinLow, c) # 0 THEN str_find(LatinLow, c)
    ELSE str_find(LatinHigh, c) + 96

\* a < b for str: the first differing code point decides, a proper prefix is smaller
str_lt(a, b) ==
    \E k \in 0..Min(Len(a), Len(b)) :
        /\ SubSeq(a, 1, k) = SubSeq(b, 1, k)
        /\ \/ k = Len(a) /\ k < Len(b)
           \/ k < Len(a) /\ k < Len(b) /\ ord(Char(a, k + 1)) < ord(Char(b, k + 1))

\* Optional[str]: None, or a value
None == <<>>

Some(v) == <<v>>

\* bool(o) of an Optional[str]: None and "" are false
Truthy(o) == o # None /\ o[1] # ""

\* {}: the empty dict
EmptyDict == [k \in {} |-> 0]

\* d.get(k) as an Optional
DictGet(d, k) == IF k \in DOMAIN d THEN Some(d[k]) ELSE None

(***************************************************************************)
(* Module constants (lines 12-30)                                          *)
(***************************************************************************)
BOM == "^"

PASS_MARK == "$"

FAIL_MARK == "!"

SKIP_MARK == "~"

TEST_MARKERS == {PASS_MARK, FAIL_MARK, SKIP_MARK}

SECTION_PREFIXES ==
    {"Test Results for", "Detailed Results:", "##[", "[command]", "Post job cleanup",
     "shell:", "env:", "Running test:", "Running builtin test:",
     "Using container runtime", "Found container"}

FAILURE_KEYWORDS == {"error", "failed", "exception", "traceback", "abort", "denied"}

NOISE_PREFIXES ==
    {"[command]", "Post job cleanup", "Temporary overriding",
     "Adding repository directory", "Cleaning up", "shell:", "env:"}

LOG_ROOT == "local/unpriv_logs"

MAX_OUTPUT_CHARS == 4000

\* the literals of collect_failure_context: messages[idx - 30:idx], context[-20:]
CONTEXT_WINDOW == 30

CONTEXT_KEEP == 20

(***************************************************************************)
(* strip_timestamp (lines 33-36)                                           *)
(***************************************************************************)
DigitsAt(s, ps) == \A p \in ps : Char(s, p) \in Digits

\* the length of the run of characters of s from position p on that satisfy Ok
RunLen(s, p, Ok(_)) ==
    LET ends == {e \in (p - 1)..Len(s) :
                    /\ \A i \in p..e : Ok(Char(s, i))
                    /\ (e < Len(s) => ~Ok(Char(s, e + 1)))}
    IN  (CHOOSE e \in ends : TRUE) - (p - 1)

IsDigit(c) == c \in Digits

\* the length of the match of TIMESTAMP_RE at the start of s, 0 when it does not match:
\* ^\d{4}-\d{2}-\d{2}T\d{2}:\d{2}:\d{2}(?:\.\d+)?Z\s*
TimestampMatchLen(s) ==
    IF ~ /\ Len(s) >= 20
         /\ DigitsAt(s, {1, 2, 3, 4, 6, 7, 9, 10, 12, 13, 15, 16, 18, 19})
         /\ Char(s, 5) = "-" /\ Char(s, 8) = "-" /\ Char(s, 11) = "T"
         /\ Char(s, 14) = ":" /\ Char(s, 17) = ":"
    THEN 0
    ELSE LET frac == IF Char(s, 20) = "." THEN RunLen(s, 21, IsDigit) ELSE 0
             zpos == IF frac > 0 THEN 21 + frac ELSE 20
         IN  IF zpos <= Len(s) /\ Char(s, zpos) = "Z"
             THEN zpos + RunLen(s, zpos + 1, IsSpace)
             ELSE 0

strip_timestamp(line) ==
    LET l == str_remove(line, BOM)
    IN  str_rstrip(SliceFrom(l, TimestampMatchLen(l)))

(***************************************************************************)
(* clamp_text (lines 39-45)                                                *)
(***************************************************************************)
clamp_text(text, limit) ==
    IF Len(text) <= limit THEN text
    ELSE str_rstrip(SliceTo(text, limit))
            \o "\n... (truncated, " \o str_of_nat(Len(text) - limit) \o " more characters)"

(***************************************************************************)
(* extract_env_value (lines 61-66)                                         *)
(***************************************************************************)
\* the first message that satisfies P, as an Optional
FirstMessage(messages, P(_)) ==
    IF \E i \in 1..Len(messages) : P(messages[i])
    THEN Some(messages[CHOOSE i \in 1..Len(messages) :
                          P(messages[i]) /\ \A j \in 1..(i - 1) : ~P(messages[j])])
    ELSE None

extract_env_value(messages, prefix) ==
    LET target == prefix \o ":"
        Hit(msg) == str_startswith(msg, target)
        found == FirstMessage(messages, Hit)
    IN  IF found = None THEN None ELSE Some(str_strip(str_split1(found[1], ":")[2]))

(***************************************************************************)
(* collect_failure_context (lines 161-181)                                 *)
(***************************************************************************)
HasFailureKeyword(line) == \E keyword \in FAILURE_KEYWORDS : str_contains(str_lower(line), keyword)

IsContextLine(msg) == msg # "" /\ ~str_startswith_any(msg, NOISE_PREFIXES)

\* seq[-n:]
LastN(seq, n) == SubSeq(seq, Max(1, Len(seq) - n + 1), Len(seq))

\* next(line for line in reversed(window) if keyword in line, window[-1])
PickReason(window) ==
    LET hits == {i \in 1..Len(window) : HasFailureKeyword(window[i])}
    IN  IF hits = {} THEN window[Len(window)]
        ELSE window[CHOOSE i \in hits : \A j \in hits : j <= i]

\* error_indices[-1]
LastErrorIndex(error_indices) == error_indices[Len(error_indices)]

\* error_indices[0]
UsedErrorIndex(error_indices) == error_indices[1]

\* context[-20:]
TrimContext(context) == LastN(context, CONTEXT_KEEP)

collect_failure_context(messages, error_indices) ==
    IF error_indices = <<>> THEN EmptyDict
    ELSE LET idx     == UsedErrorIndex(error_indices)
             start   == Max(0, idx - CONTEXT_WINDOW)
             context == SelectSeq(SubSeq(messages, start + 1, idx), IsContextLine)
         IN  IF context = <<>> THEN EmptyDict
             ELSE LET trimmed_context == TrimContext(context)
                  IN  [reason |-> PickReason(trimmed_context),
                       output |-> clamp_text(str_strip(str_join("\n", trimmed_context)),
                                             MAX_OUTPUT_CHARS)]

(***************************************************************************)
(* Paths: a path below LOG_ROOT is the sequence of its parts               *)
(***************************************************************************)
PathName(p) == p[Len(p)]

\* str(path)
PathStr(p) == LOG_ROOT \o "/" \o str_join("/", p)

\* path.stem: the name without its last suffix
PathStem(p) ==
    LET name == PathName(p)
        dots == {i \in 1..Len(name) : Char(name, i) = "."}
        last == IF dots = {} THEN 0 ELSE CHOOSE i \in dots : \A j \in dots : j <= i
    IN  IF 1 < last /\ last < Len(name) THEN SubSeq(name, 1, last - 1) ELSE name

\* p < q for paths: the parts compare as tuples of str
PathLt(p, q) ==
    \E k \in 0..Min(Len(p), Len(q)) :
        /\ SubSeq(p, 1, k) = SubSeq(q, 1, k)
        /\ \/ k = Len(p) /\ k < Len(q)
           \/ k < Len(p) /\ k < Len(q) /\ str_lt(p[k + 1], q[k + 1])

\* sorted(files)
RECURSIVE SortedPaths(_)
SortedPaths(S) ==
    IF S = {} THEN <<>>
    ELSE LET least == CHOOSE p \in S : \A q \in S \ {p} : PathLt(p, q)
         IN  <<least>> \o SortedPaths(S \ {least})

(***************************************************************************)
(* iter_log_files (lines 48-58)                                            *)
(***************************************************************************)
IsLogFile(files, p) ==
    /\ str_endswith(PathName(p), ".txt")
    /\ str_lower(PathName(p)) # "system.txt"
    /\ files[p].is_file

iter_log_files(exists, files) ==
    IF ~exists THEN <<>>
    ELSE SortedPaths({p \in DOMAIN files : IsLogFile(files, p)})

(***************************************************************************)
(* parse_test_blocks (lines 69-158): the pieces of its loops               *)
(***************************************************************************)
IsHeader(raw_msg) == str_startswith(str_lstrip(raw_msg), "Test Results for")

\* the first header wins instead of the last
FirstHeaderIndex(messages) ==
    LET hits == {i \in 1..Len(messages) : str_startswith(str_lstrip(messages[i]), "Test Results for")}
    IN  IF hits = {} THEN 0 - 1 ELSE (CHOOSE i \in hits : \A j \in hits : i <= j) - 1

\* the Python index of the last header, -1 when there is none (lines 70-73)
LastHeaderIndex(messages) ==
    LET hits == {i \in 1..Len(messages) : IsHeader(messages[i])}
    IN  IF hits = {} THEN 0 - 1 ELSE (CHOOSE i \in hits : \A j \in hits : j <= i) - 1

\* lines 77-78
ContainerOf(raw_msg) ==
    str_rstrip_colon(str_strip(SliceFrom(str_lstrip(raw_msg), Len("Test Results for"))))

\* a value of the summary table: int(value) when it parses, else the text (lines 97-100);
\* text is str(value) in both cases
SummaryValue(value) ==
    IF int_ok(value)
    THEN LET n == int_value(value)
         IN  [is_int |-> TRUE, num |-> n,
              text |-> IF n < 0 THEN "-" \o str_of_nat(0 - n) ELSE str_of_nat(n)]
    ELSE [is_int |-> FALSE, num |-> 0, text |-> value]

\* summary[key] = ... (lines 94-100) for a line with a colon
SummaryPut(summary, msg) ==
    LET kv    == str_split1(msg, ":")
        key   == str_lower(str_strip(kv[1]))
        value == str_strip(kv[2])
    IN  (key :> SummaryValue(value)) @@ summary

\* any line that is no test line ends the loop
TestLineKindStopsAtOther(msg) ==
    IF msg = "" THEN "blank"
    ELSE IF Char(msg, 1) \in TEST_MARKERS THEN "marker"
    ELSE "section"

\* how the test-line loop classifies a left-stripped line (lines 108-114)
TestLineKind(msg) ==
    IF msg = "" THEN "blank"
    ELSE IF str_startswith_any(msg, SECTION_PREFIXES) THEN "section"
    ELSE IF Char(msg, 1) \in TEST_MARKERS THEN "marker"
    ELSE "other"

\* status_map.get(first, "unknown") (lines 122-123)
StatusOf(first) ==
    IF first = PASS_MARK THEN "passed"
    ELSE IF first = FAIL_MARK THEN "failed"
    ELSE IF first = SKIP_MARK THEN "skipped"
    ELSE "unknown"

\* the record of a test line (lines 113-126)
MakeRecord(msg) ==
    LET first  == Char(msg, 1)
        rest   == str_strip(SliceFrom(msg, 1))
        split  == str_contains(rest, ": ")
        name   == IF split THEN str_strip(str_split1(rest, ": ")[1]) ELSE rest
        note   == IF split THEN Some(str_strip(str_split1(rest, ": ")[2])) ELSE None
        status == StatusOf(first)
        base   == [name |-> name, status |-> status]
    IN  IF Truthy(note) /\ str_lower(note[1]) # status
        THEN ("note" :> note[1]) @@ base
        ELSE base

\* whether the lookahead stops at a left-stripped line (line 138)
LookaheadStops(nxt) ==
    str_startswith_any(nxt, SECTION_PREFIXES) \/ (nxt # "" /\ Char(nxt, 1) \in TEST_MARKERS)

\* lines 142-143
WithOutput(rec, lines) ==
    IF lines # <<>>
    THEN ("output" :> clamp_text(str_strip(str_join("\n", lines)), MAX_OUTPUT_CHARS)) @@ rec
    ELSE rec

\* idx = lookahead, then idx += 1: the line that ended the lookahead is consumed
IdxPastLookahead(la) == la + 1

\* idx = lookahead - 1 (line 144), then idx += 1 (line 147)
IdxAfterLookahead(la) == (la - 1) + 1

\* continue without idx += 1
IdxKeptAtBlank(i) == i

\* idx += 1; continue (lines 108-110)
IdxAfterBlank(i) == i + 1

\* only a failure with output is listed
FailuresAppendIfOutput(fails, rec) == IF "output" \in DOMAIN rec THEN Append(fails, rec) ELSE fails

\* failures.append(record) (line 145)
FailuresAppend(fails, rec) == Append(fails, rec)

\* lines 149-158
BuildResult(target, table, ts, fails) ==
    (IF target # "" THEN [test_target |-> target] ELSE EmptyDict)
    @@ (IF table # EmptyDict THEN [test_summary |-> table] ELSE EmptyDict)
    @@ (IF ts # <<>> THEN [tests |-> ts] ELSE EmptyDict)
    @@ (IF fails # <<>> THEN [failures |-> fails] ELSE EmptyDict)

(***************************************************************************)
(* parse_log (lines 184-245): its pieces                                   *)
(***************************************************************************)
\* the marker is looked for after left-stripping the line
ErrorIndicesLstripped(messages) ==
    LET Rec[i \in 0..Len(messages)] ==
            IF i = 0 THEN <<>>
            ELSE IF str_startswith(str_lstrip(messages[i]), "##[error]")
                 THEN Append(Rec[i - 1], i - 1)
                 ELSE Rec[i - 1]
    IN  Rec[Len(messages)]

\* line 207, as Python indices
ErrorIndices(messages) ==
    LET Rec[i \in 0..Len(messages)] ==
            IF i = 0 THEN <<>>
            ELSE IF str_startswith(messages[i], "##[error]")
                 THEN Append(Rec[i - 1], i - 1)
                 ELSE Rec[i - 1]
    IN  Rec[Len(messages)]

\* lines 197-203
VersionOf(messages) ==
    LET Hit(msg) == str_startswith(msg, "Detected version:")
        found    == FirstMessage(messages, Hit)
        version  == IF found = None THEN None
                    ELSE Some(str_strip(str_split1(found[1], ":")[2]))
    IN  IF ~Truthy(version) THEN extract_env_value(messages, "VERSION") ELSE version

\* lines 189-209
EntryHead(p, messages) ==
    LET recipe  == extract_env_value(messages, "RECIPE")
        version == VersionOf(messages)
    IN  (IF Truthy(recipe) THEN [recipe |-> recipe[1]] ELSE EmptyDict)
        @@ (IF Truthy(version) THEN [version |-> version[1]] ELSE EmptyDict)
        @@ [name |-> PathStem(p), path |-> PathStr(p),
            status |-> IF ErrorIndices(messages) # <<>> THEN "failed" ELSE "succeeded"]

\* [f(x) for x in seq]
MapSeq(seq, F(_)) == [i \in 1..Len(seq) |-> F(seq[i])]

\* lines 216-229
SucceededReason(info) ==
    LET table == IF "test_summary" \in DOMAIN info THEN info.test_summary ELSE EmptyDict
    IN  IF /\ table # EmptyDict
           /\ "failed" \in DOMAIN table
           /\ table["failed"].is_int
           /\ table["failed"].num = 0
        THEN IF "total" \in DOMAIN table /\ "passed" \in DOMAIN table
             THEN "All tests passed (" \o table["passed"].text \o " of "
                     \o table["total"].text \o ")."
             ELSE IF "passed" \in DOMAIN table
             THEN "All tests passed (" \o table["passed"].text \o ")."
             ELSE "All tests passed."
        ELSE IF "tests" \in DOMAIN info
        THEN "All tests completed without failures."
        ELSE "Completed without reported failures."

\* lines 231-243
FailedReason(info, messages, error_indices) ==
    LET fails == IF "failures" \in DOMAIN info THEN info.failures ELSE <<>>
        NameOf(f) == f.name
        HasOutput(f) == "output" \in DOMAIN f /\ f.output # ""
        OutputOf(f) == f.output
    IN  IF fails # <<>>
        THEN LET outputs == MapSeq(SelectSeq(fails, HasOutput), OutputOf)
             IN  [reason |-> "Tests failed: " \o str_join(", ", MapSeq(fails, NameOf))]
                 @@ (IF outputs # <<>>
                     THEN [failure_output |->
                             clamp_text(str_join("\n\n", outputs), MAX_OUTPUT_CHARS)]
                     ELSE EmptyDict)
        ELSE LET context == collect_failure_context(messages, error_indices)
             IN  IF context # EmptyDict
                 THEN [reason |-> context.reason, failure_output |-> context.output]
                 ELSE [reason |-> "Build failed for an unknown reason."]

\* lines 211-245: the entry parse_log returns
FinishEntry(head, info, messages, error_indices) ==
    LET merged == info @@ head
    IN  IF merged.status = "succeeded"
        THEN [reason |-> SucceededReason(info)] @@ merged
        ELSE FailedReason(info, messages, error_indices) @@ merged

(***************************************************************************)
(* main (lines 248-263): its pieces                                        *)
(***************************************************************************)
\* entries.sort(key=name): stable
RECURSIVE SortByName(_)
SortByName(seq) ==
    IF seq = <<>> THEN <<>>
    ELSE LET sorted == SortByName(SubSeq(seq, 1, Len(seq) - 1))
             e      == seq[Len(seq)]
             after  == {i \in 1..Len(sorted) : str_lt(e.name, sorted[i].name)}
             at     == IF after = {} THEN Len(sorted) + 1
                       ELSE CHOOSE i \in after : \A j \in after : i <= j
         IN  SubSeq(sorted, 1, at - 1) \o <<e>> \o SubSeq(sorted, at, Len(sorted))

CountStatus(seq, status) == Cardinality({i \in 1..Len(seq) : seq[i].status = status})

\* the summary object of lines 253-261
SummaryDoc(es) ==
    [log_directory |-> LOG_ROOT,
     total_builds  |-> Len(es),
     summary       |-> [succeeded |-> CountStatus(es, "succeeded"),
                        failed    |-> CountStatus(es, "failed")],
     entries       |-> es]

(***************************************************************************)
(* The inputs                                                              *)
(***************************************************************************)
\* all sequences over S of length at most n
SeqsUpTo(S, n) == UNION {[1..k -> S] : k \in 0..n}

\* n copies of line
Rep(line, n) == [i \in 1..n |-> line]

\* Logs with a test report: a frame (the lines before the report, its header and
\* summary table, the lines after it) around at most MaxDetail lines of detail.
MaxDetail == 3

\* two characters that are whitespace to Python and are kept by str.splitlines:
\* U+001F (unit separator) and U+00A0 (no-break space)
US == ""

NBSP == " "

DetailLines ==
    {"$ caseA", "! caseB: some error", NBSP \o " plain output", US, "##[error]boom",
     "  ##[error] indented"}

ReportFrames ==
    {[pre   |-> <<>>,
      head  |-> <<"2024-01-01T00:00:00Z Test Results for demo:", "total: 3", "Passed: 2",
                  "PASSÉS: 2", "failed: 1", "Detailed Results:">>,
      post  |-> <<>>],
     [pre   |-> <<"^2024-01-01T00:00:00.5Z" \o US \o " RECIPE: fsl", "VERSION: 1.0",
                  "Test Results for old:", "total: 9", "extra: yes", "Detailed Results:",
                  "! oldcase: FAILED", "old output">>,
      head  |-> <<"  Test Results for retry", "failed: 0", "", "passed: 3", "total: 3",
                  "no colon here">>,
      post  |-> <<"$ late", "2024-01-01T00:00:00Z   ##[error]Process completed">>],
     [pre   |-> <<"Detected version: 2.1", "VERSION: 1.0">>,
      head  |-> <<"Test Results for", "failed:" \o NBSP \o "0" \o US, "Detailed Results: all">>,
      post  |-> <<"~ caseC: skipped", "! last">>],
     [pre   |-> <<"RECIPE:", "Detected version:">>,
      head  |-> <<"Test Results for  x : ", "state: none", "failed: 00", "passed: +4">>,
      post  |-> <<"", "! tail: Failed", "", "Running test: next", "$ ignored">>]}

ReportLogs ==
    {f.pre \o f.head \o d \o f.post : f \in ReportFrames, d \in SeqsUpTo(DetailLines, MaxDetail)}

\* Logs without a test report: an optional line, at most MaxFill copies of a filler
\* line and another optional line before the first error marker, and a tail after it.
MaxFill == 31

ContextLines ==
    {"Build Error: no space", "plain last line", "[command]make", "Permission DENIED"}

OptionalLine == {<<>>} \cup {<<l>> : l \in ContextLines}

FillerLines == {"step ok", ""}

ErrorTails == {<<>>, <<"later failed step", "##[error]second">>}

ErrorLogs ==
    {a \o Rep(filler, n) \o b \o <<"##[error]Process completed with exit code 1.">> \o t :
        a \in OptionalLine, filler \in FillerLines, n \in 0..MaxFill,
        b \in OptionalLine, t \in ErrorTails}

\* Directories of at most MaxFiles paths, each a directory, an unreadable file or
\* a file holding one of two short logs.
MaxFiles == 2

BatchPaths == {<<"b.txt">>, <<"a", "$.txt">>, <<"a", "b.txt">>, <<"SYSTEM.txt">>, <<"notes.log">>}

File(lines) == [is_file |-> TRUE, readable |-> TRUE, lines |-> lines]

BatchFiles ==
    {File(<<"Test Results for demo:", "failed: 1", "Detailed Results:", "! caseB",
            "Traceback", "##[error]exit 1">>),
     File(<<"VERSION: 3", "all fine">>),
     [is_file |-> TRUE, readable |-> FALSE, lines |-> <<>>],
     [is_file |-> FALSE, readable |-> FALSE, lines |-> <<>>]}

BatchDirs ==
    UNION {[ps -> BatchFiles] : ps \in {qs \in SUBSET BatchPaths : Cardinality(qs) <= MaxFiles}}

\* Logs with two test reports, each beside the same lines cut before one of its
\* lines (a parse of the whole log and a parse of a suffix of it).
Sections ==
    {<<"Test Results for full:", "total: 2", "failed: 1", "Detailed Results:", "$ a",
       "! b: boom", "  trace">>,
     <<"Test Results for">>,
     <<"  Test Results for table", "total: 0">>,
     <<"Test Results for bare:", "Detailed Results:", "~ s">>}

SectionGaps == {<<>>, <<"##[error]between">>}

TwoReportLogs == {s1 \o g \o s2 : s1 \in Sections, g \in SectionGaps, s2 \in Sections}

(***************************************************************************)
(* The program's state                                                     *)
(***************************************************************************)
VARIABLES
    root_exists,    \* LOG_ROOT.exists()
    fs,             \* the paths below LOG_ROOT: is_file, readable, lines (the text, split)
    pc,             \* where the run is
    log_files,      \* main: log_files
    file_i,         \* main: how many of log_files the comprehension has parsed
    entries,        \* main: entries
    output_doc,     \* what was written to OUTPUT_PATH: None, or the summary object
    path,           \* parse_log: path
    messages,       \* parse_log: messages
    entry,          \* parse_log: entry
    error_indices,  \* parse_log: error_indices
    test_info,      \* parse_log: test_info
    container,      \* parse_test_blocks: container
    summary,        \* parse_test_blocks: summary
    tests,          \* parse_test_blocks: tests
    failures,       \* parse_test_blocks: failures
    idx,            \* parse_test_blocks: idx
    record,         \* parse_test_blocks: record (of the failed test being completed)
    output_lines,   \* parse_test_blocks: output_lines
    lookahead       \* parse_test_blocks: lookahead

main_vars == <<root_exists, fs, log_files, file_i, entries, output_doc>>

log_vars == <<path, messages, entry, error_indices, test_info>>

ptb_vars == <<container, summary, tests, failures, idx, record, output_lines, lookahead>>

vars == <<pc, main_vars, log_vars, ptb_vars>>

\* the locals of a call that has not started or has returned
NoLogLocals ==
    /\ path = <<>> /\ messages = <<>> /\ entry = EmptyDict
    /\ error_indices = <<>> /\ test_info = EmptyDict

NoPtbLocals ==
    /\ container = "" /\ summary = EmptyDict /\ tests = <<>> /\ failures = <<>>
    /\ idx = 0 /\ record = EmptyDict /\ output_lines = <<>> /\ lookahead = 0

\* one log with a test report, or one without
InitSingle ==
    /\ root_exists = TRUE
    /\ \E lines \in ReportLogs \cup ErrorLogs : fs = (<<"job.txt">> :> File(lines))

\* a directory of several paths, or no directory
InitBatch ==
    /\ root_exists \in BOOLEAN
    /\ fs \in (IF root_exists THEN BatchDirs ELSE {EmptyDict})

\* a log and one of its suffixes
InitPair ==
    /\ root_exists = TRUE
    /\ \E lines \in TwoReportLogs : \E k \in 0..(Len(lines) - 1) :
           fs = (<<"whole.txt">> :> File(lines)) @@ (<<"suffix.txt">> :> File(SliceFrom(lines, k)))

Init ==
    /\ (InitSingle \/ InitBatch \/ InitPair)
    /\ pc = "start"
    /\ log_files = <<>> /\ file_i = 0 /\ entries = <<>> /\ output_doc = None
    /\ NoLogLocals
    /\ NoPtbLocals

(***************************************************************************)
(* main                                                                    *)
(***************************************************************************)
\* line 249
IterLogFiles ==
    /\ pc = "start"
    /\ log_files' = iter_log_files(root_exists, fs)
    /\ pc' = "main_loop"
    /\ UNCHANGED <<root_exists, fs, file_i, entries, output_doc, log_vars, ptb_vars>>

\* line 250, one more parse_log(path); lines 185-209 of parse_log
ParseLogBegin ==
    /\ pc = "main_loop"
    /\ file_i < Len(log_files)
    /\ fs[log_files[file_i + 1]].readable
    /\ LET p    == log_files[file_i + 1]
           msgs == MapSeq(fs[p].lines, strip_timestamp)
       IN  /\ path' = p
           /\ messages' = msgs
           /\ entry' = EntryHead(p, msgs)
           /\ error_indices' = ErrorIndices(msgs)
    /\ pc' = "ptb_find"
    /\ UNCHANGED <<main_vars, test_info, ptb_vars>>

\* line 185: path.read_text raises (OSError); neither parse_log nor main catches it
ReadTextRaises ==
    /\ pc = "main_loop"
    /\ file_i < Len(log_files)
    /\ ~fs[log_files[file_i + 1]].readable
    /\ pc' = "raised"
    /\ UNCHANGED <<main_vars, log_vars, ptb_vars>>

\* lines 70-83
PtbFindHeader ==
    /\ pc = "ptb_find"
    /\ LET last_idx == LastHeaderIndex(messages)
       IN  IF last_idx < 0
           THEN /\ test_info' = EmptyDict
                /\ pc' = "reason"
                /\ UNCHANGED ptb_vars
           ELSE /\ container' = ContainerOf(messages[last_idx + 1])
                /\ idx' = last_idx + 1
                /\ pc' = "summary"
                /\ UNCHANGED <<test_info, summary, tests, failures, record,
                               output_lines, lookahead>>
    /\ UNCHANGED <<main_vars, path, messages, entry, error_indices>>

\* one evaluation of the while of line 84 and its body (lines 85-103)
SummaryIter ==
    /\ pc = "summary"
    /\ LET msg == IF idx < Len(messages) THEN str_lstrip(messages[idx + 1]) ELSE ""
       IN  IF idx >= Len(messages)
           THEN /\ pc' = "tests"
                /\ UNCHANGED <<idx, summary>>
           ELSE IF msg = ""
           THEN /\ idx' = idx + 1
                /\ pc' = "summary"
                /\ UNCHANGED summary
           ELSE IF str_startswith(msg, "Detailed Results:")
           THEN /\ idx' = idx + 1
                /\ pc' = "tests"
                /\ UNCHANGED summary
           ELSE IF str_contains(msg, ":")
           THEN /\ summary' = SummaryPut(summary, msg)
                /\ idx' = idx + 1
                /\ pc' = "summary"
           ELSE /\ pc' = "tests"
                /\ UNCHANGED <<idx, summary>>
    /\ UNCHANGED <<main_vars, log_vars, container, tests, failures, record,
                   output_lines, lookahead>>

\* one evaluation of the while of line 105 and its body, up to the lookahead of a
\* failed test (lines 106-130) or the end of the body (lines 146-147)
TestIter ==
    /\ pc = "tests"
    /\ LET msg  == IF idx < Len(messages) THEN str_lstrip(messages[idx + 1]) ELSE ""
           kind == TestLineKind(msg)
       IN  IF idx >= Len(messages) \/ kind = "section"
           THEN /\ pc' = "ptb_return"
                /\ UNCHANGED <<idx, tests, record, output_lines, lookahead>>
           ELSE IF kind = "blank"
           THEN /\ idx' = IdxAfterBlank(idx)
                /\ pc' = "tests"
                /\ UNCHANGED <<tests, record, output_lines, lookahead>>
           ELSE IF kind = "marker" /\ MakeRecord(msg).status = "failed"
           THEN /\ record' = MakeRecord(msg)
                /\ output_lines' = <<>>
                /\ lookahead' = idx + 1
                /\ pc' = "lookahead"
                /\ UNCHANGED <<idx, tests>>
           ELSE IF kind = "marker"
           THEN /\ tests' = Append(tests, MakeRecord(msg))
                /\ idx' = idx + 1
                /\ pc' = "tests"
                /\ UNCHANGED <<record, output_lines, lookahead>>
           ELSE /\ idx' = idx + 1
                /\ pc' = "tests"
                /\ UNCHANGED <<tests, record, output_lines, lookahead>>
    /\ UNCHANGED <<main_vars, log_vars, container, summary, failures>>

\* one evaluation of the while of line 131 and its body (lines 132-141); when the
\* loop ends, the rest of the failed test's iteration (lines 142-147)
LookaheadIter ==
    /\ pc = "lookahead"
    /\ LET nxt == IF lookahead < Len(messages) THEN str_lstrip(messages[lookahead + 1]) ELSE ""
       IN  IF lookahead < Len(messages) /\ nxt = ""
           THEN /\ output_lines' = Append(output_lines, "")
                /\ lookahead' = lookahead + 1
                /\ pc' = "lookahead"
                /\ UNCHANGED <<idx, tests, failures, record>>
           ELSE IF lookahead < Len(messages) /\ ~LookaheadStops(nxt)
           THEN /\ output_lines' = Append(output_lines, nxt)
                /\ lookahead' = lookahead + 1
                /\ pc' = "lookahead"
                /\ UNCHANGED <<idx, tests, failures, record>>
           ELSE /\ failures' = FailuresAppend(failures, WithOutput(record, output_lines))
                /\ tests' = Append(tests, WithOutput(record, output_lines))
                /\ idx' = IdxAfterLookahead(lookahead)
                /\ record' = EmptyDict
                /\ output_lines' = <<>>
                /\ lookahead' = 0
                /\ pc' = "tests"
    /\ UNCHANGED <<main_vars, log_vars, container, summary>>

\* lines 149-158, and the assignment of line 211
PtbReturn ==
    /\ pc = "ptb_return"
    /\ test_info' = BuildResult(container, summary, tests, failures)
    /\ pc' = "reason"
    /\ UNCHANGED <<main_vars, path, messages, entry, error_indices, ptb_vars>>

\* lines 212-245, and the entry joins main's entries
ParseLogReturn ==
    /\ pc = "reason"
    /\ entries' = Append(entries, FinishEntry(entry, test_info, messages, error_indices))
    /\ file_i' = file_i + 1
    /\ path' = <<>> /\ messages' = <<>> /\ entry' = EmptyDict
    /\ error_indices' = <<>> /\ test_info' = EmptyDict
    /\ container' = "" /\ summary' = EmptyDict /\ tests' = <<>> /\ failures' = <<>>
    /\ idx' = 0 /\ record' = EmptyDict /\ output_lines' = <<>> /\ lookahead' = 0
    /\ pc' = "main_loop"
    /\ UNCHANGED <<root_exists, fs, log_files, output_doc>>

\* lines 251-263
WriteSummary ==
    /\ pc = "main_loop"
    /\ file_i = Len(log_files)
    /\ entries' = SortByName(entries)
    /\ output_doc' = Some(SummaryDoc(SortByName(entries)))
    /\ pc' = "done"
    /\ UNCHANGED <<root_exists, fs, log_files, file_i, log_vars, ptb_vars>>

Next ==
    \/ IterLogFiles
    \/ ParseLogBegin
    \/ ReadTextRaises
    \/ PtbFindHeader
    \/ SummaryIter
    \/ TestIter
    \/ LookaheadIter
    \/ PtbReturn
    \/ ParseLogReturn
    \/ WriteSummary

Spec == Init /\ [][Next]_vars

(***************************************************************************)
(* What the properties speak of                                            *)
(***************************************************************************)
\* the left-stripped message at Python index i of msgs
Stripped(msgs, i) == str_lstrip(msgs[i + 1])

IsMarkerLine(m) == m # "" /\ Char(m, 1) \in TEST_MARKERS

IsFailedMarkerLine(m) == m # "" /\ Char(m, 1) = FAIL_MARK

IsSectionLine(m) == \E prefix \in SECTION_PREFIXES : str_startswith(m, prefix)

IsHeaderLine(m) == str_startswith(str_lstrip(m), "Test Results for")

\* the n-th smallest element of a set of numbers
NthOf(S, n) == CHOOSE i \in S : Cardinality({j \in S : j <= i}) = n

LeastOf(S, default) == IF S = {} THEN default ELSE CHOOSE i \in S : \A j \in S : i <= j

\* the Python index at which test-line parsing starts: after the header, the first
\* line that is not blank and either starts with "Detailed Results:" (parsing
\* starts behind it) or has no colon (parsing starts at it); the end otherwise
TestStartOf(msgs) ==
    LET h    == (CHOOSE i \in 1..Len(msgs) :
                    IsHeaderLine(msgs[i]) /\ \A j \in (i + 1)..Len(msgs) : ~IsHeaderLine(msgs[j])) - 1
        ends == {j \in (h + 1)..(Len(msgs) - 1) :
                    /\ Stripped(msgs, j) # ""
                    /\ \/ str_startswith(Stripped(msgs, j), "Detailed Results:")
                       \/ ~str_contains(Stripped(msgs, j), ":")}
        j    == LeastOf(ends, Len(msgs))
    IN  IF j < Len(msgs) /\ str_startswith(Stripped(msgs, j), "Detailed Results:") THEN j + 1 ELSE j

\* the Python index of the first section-boundary line at or after from; the end otherwise
FirstSectionFrom(msgs, from) ==
    LeastOf({i \in from..(Len(msgs) - 1) : IsSectionLine(Stripped(msgs, i))}, Len(msgs))

\* the Python indices of the test-marker lines in from..(to - 1)
MarkersIn(msgs, from, to) == {i \in from..(to - 1) : IsMarkerLine(Stripped(msgs, i))}

\* line i lies in the output a failed test collects: a failed test's line precedes
\* it with no test-marker line and no section-boundary line in between
CollectedByFailed(msgs, from, i) ==
    \E m \in from..(i - 1) :
        /\ IsFailedMarkerLine(Stripped(msgs, m))
        /\ \A j \in (m + 1)..(i - 1) :
              ~IsMarkerLine(Stripped(msgs, j)) /\ ~IsSectionLine(Stripped(msgs, j))

\* a line that is not blank, not a test line and not a section boundary
IsPlainLine(m) == m # "" /\ ~IsMarkerLine(m) /\ ~IsSectionLine(m)

\* the messages of the file an entry was built from
MessagesOf(e) ==
    LET p == CHOOSE q \in DOMAIN fs : PathStr(q) = e.path
    IN  [i \in 1..Len(fs[p].lines) |-> strip_timestamp(fs[p].lines[i])]

EntriesStand == pc \in {"main_loop", "done", "raised"}

(***************************************************************************)
(* C1                                                                      *)
(***************************************************************************)
\* C1, as claimed: once past the summary, the first non-blank line outside a failed
\* test's output whose first character is no test glyph ends test-line parsing, so
\* the records of tests are the test-marker lines before the first such line.
C1_StopsAtFirstOtherLine ==
    pc = "ptb_return" =>
        LET start == TestStartOf(messages)
            stops == {i \in start..(Len(messages) - 1) :
                         /\ Stripped(messages, i) # ""
                         /\ ~IsMarkerLine(Stripped(messages, i))
                         /\ \/ IsSectionLine(Stripped(messages, i))
                            \/ ~CollectedByFailed(messages, start, i)}
        IN  Len(tests) = Cardinality(MarkersIn(messages, start, LeastOf(stops, Len(messages))))

\* C1, amended: only a section-boundary line (or the end of the list) ends
\* test-line parsing; any other non-blank line that is no test line is passed over.
\* Every test-marker line between the start of test-line parsing and the first
\* section-boundary line yields one record, and no test-marker line after that
\* boundary yields any.
C1_StopsAtSectionOnly ==
    pc = "ptb_return" =>
        LET start == TestStartOf(messages)
            stop  == FirstSectionFrom(messages, start)
        IN  /\ Len(tests) = Cardinality(MarkersIn(messages, start, stop))
            /\ idx = stop

\* C1: a plain line outside any failed test's output precedes a recorded test
\* line, and a test line behind the section boundary is left out
C1_Witness ==
    /\ pc = "ptb_return"
    /\ LET start == TestStartOf(messages)
           stop  == FirstSectionFrom(messages, start)
       IN  /\ \E i \in start..(stop - 1) : \E j \in (i + 1)..(stop - 1) :
                 /\ IsPlainLine(Stripped(messages, i))
                 /\ ~CollectedByFailed(messages, start, i)
                 /\ IsMarkerLine(Stripped(messages, j))
           /\ MarkersIn(messages, stop, Len(messages)) # {}
           /\ Len(tests) > 0

(***************************************************************************)
(* C2                                                                      *)
(***************************************************************************)
NameOfRecord(r) == r.name

\* C2: an entry with a non-empty failures list has the reason "Tests failed: "
\* followed by the comma-joined names of the failures; the generic reasons and the
\* fallback reason go only to entries without failures.
C2_FailuresDecideReason ==
    EntriesStand =>
        \A k \in 1..Len(entries) :
            "failures" \in DOMAIN entries[k] =>
                entries[k].reason
                    = "Tests failed: " \o str_join(", ", MapSeq(entries[k].failures, NameOfRecord))

(***************************************************************************)
(* C3                                                                      *)
(***************************************************************************)
\* C3, as claimed: status is failed exactly when some normalized line, after
\* left-stripping, begins with ##[error]; otherwise it is succeeded.
C3_StatusFromLstrippedMarker ==
    EntriesStand =>
        \A k \in 1..Len(entries) :
            LET msgs == MessagesOf(entries[k])
                hit  == \E i \in 1..Len(msgs) : str_startswith(str_lstrip(msgs[i]), "##[error]")
            IN  entries[k].status = IF hit THEN "failed" ELSE "succeeded"

\* C3, amended: status is failed exactly when some normalized line itself, with
\* its indentation kept, begins with ##[error]; otherwise it is succeeded.  An
\* indented ##[error] line, which parse_test_blocks takes for a section boundary,
\* does not count.
C3_StatusFromUnstrippedMarker ==
    EntriesStand =>
        \A k \in 1..Len(entries) :
            LET msgs == MessagesOf(entries[k])
                hit  == \E i \in 1..Len(msgs) : str_startswith(msgs[i], "##[error]")
            IN  entries[k].status = IF hit THEN "failed" ELSE "succeeded"

\* C3: a log whose only ##[error] line is indented came out succeeded, and the
\* test parser had stopped at that line
C3_Witness ==
    /\ pc = "done"
    /\ \E k \in 1..Len(entries) :
          LET msgs == MessagesOf(entries[k])
          IN  /\ entries[k].status = "succeeded"
              /\ "tests" \in DOMAIN entries[k]
              /\ \E i \in 1..Len(msgs) :
                    /\ msgs[i] # str_lstrip(msgs[i])
                    /\ str_startswith(str_lstrip(msgs[i]), "##[error]")
                    /\ \E j \in (i + 1)..Len(msgs) : IsMarkerLine(str_lstrip(msgs[j]))
                    /\ Len(entries[k].tests)
                          = Cardinality(MarkersIn(msgs, TestStartOf(msgs), i - 1))

(***************************************************************************)
(* C4                                                                      *)
(***************************************************************************)
TestKeys == {"test_target", "test_summary", "tests", "failures"}

TestFields(e) == [k \in DOMAIN e \cap TestKeys |-> e[k]]

\* short is the suffix of long that starts at the last header of long
IsLastReport(long, short) ==
    \E k \in 1..Len(long) :
        /\ IsHeaderLine(long[k])
        /\ \A j \in (k + 1)..Len(long) : ~IsHeaderLine(long[j])
        /\ short = SubSeq(long, k, Len(long))

\* C4: the test fields parsed from a log are those parsed from its suffix that
\* starts at the last "Test Results for" header; nothing of an earlier report shows.
C4_LastHeaderWins ==
    EntriesStand =>
        \A a \in 1..Len(entries) : \A b \in 1..Len(entries) :
            IsLastReport(MessagesOf(entries[a]), MessagesOf(entries[b]))
                => TestFields(entries[a]) = TestFields(entries[b])

\* C4: a log with two reports, the first with tests and the last without, beside
\* the suffix at its last header
C4_Witness ==
    /\ pc = "done"
    /\ \E a \in 1..Len(entries) : \E b \in 1..Len(entries) :
          LET long == MessagesOf(entries[a])
          IN  /\ IsLastReport(long, MessagesOf(entries[b]))
              /\ Cardinality({k \in 1..Len(long) : IsHeaderLine(long[k])}) = 2
              /\ \E k \in 1..Len(long) : \E j \in (k + 1)..Len(long) :
                     /\ IsHeaderLine(long[k])
                     /\ IsMarkerLine(str_lstrip(long[j]))
                     /\ \E h \in (j + 1)..Len(long) : IsHeaderLine(long[h])
              /\ "tests" \notin DOMAIN entries[a]
              /\ "test_summary" \in DOMAIN entries[a]

(***************************************************************************)
(* C5                                                                      *)
(***************************************************************************)
RunEnded == pc \in {"done", "raised"}

\* C5: when the run has ended, the summary was written and holds an entry for
\* every log file that could be read, whatever happened to the others.
C5_BatchSurvivesBadFile ==
    RunEnded =>
        /\ output_doc # None
        /\ \A i \in 1..Len(log_files) :
              fs[log_files[i]].readable =>
                  \E k \in 1..Len(output_doc[1].entries) :
                      output_doc[1].entries[k].path = PathStr(log_files[i])

(***************************************************************************)
(* C6                                                                      *)
(***************************************************************************)
\* the Python index of the first line of msgs that begins with ##[error]
FirstErrorOf(msgs) ==
    LeastOf({i \in 0..(Len(msgs) - 1) : str_startswith(msgs[i + 1], "##[error]")}, Len(msgs))

\* the messages before Python index at, at most n of them
Preceding(msgs, at, n) == SubSeq(msgs, Max(0, at - n) + 1, at)

\* seq without its blank and noise-prefixed lines, in the order of seq
Filtered(seq) ==
    LET keep == {i \in 1..Len(seq) :
                    seq[i] # "" /\ \A prefix \in NOISE_PREFIXES : ~str_startswith(seq[i], prefix)}
    IN  [n \in 1..Cardinality(keep) |-> seq[NthOf(keep, n)]]

MentionsFailure(line) == \E keyword \in FAILURE_KEYWORDS : str_contains(str_lower(line), keyword)

\* an entry built on the fallback path: failed, without structured failures
IsFallbackEntry(e) == e.status = "failed" /\ "failures" \notin DOMAIN e

\* the filtered window of a fallback entry: of the 30 messages before the first
\* error marker, those that are neither blank nor noise
FilteredWindow(e) ==
    LET msgs == MessagesOf(e)
        seq  == Preceding(msgs, FirstErrorOf(msgs), CONTEXT_WINDOW)
    IN  Filtered(seq)

\* C6: on the fallback path the window is the filtered 30 messages before the
\* first error marker, cut to its last 20 lines; the reason is the line of those
\* 20 closest to the error that contains a failure keyword, or the last line when
\* none does; with an empty filtered window the reason is the unknown-reason
\* message and there is no failure_output.
C6_FallbackReason ==
    EntriesStand =>
        \A k \in 1..Len(entries) :
            IsFallbackEntry(entries[k]) =>
                LET kept == FilteredWindow(entries[k])
                    from == Max(1, Len(kept) - CONTEXT_KEEP + 1)
                    hits == {i \in from..Len(kept) : MentionsFailure(kept[i])}
                IN  IF kept = <<>>
                    THEN /\ entries[k].reason = "Build failed for an unknown reason."
                         /\ "failure_output" \notin DOMAIN entries[k]
                    ELSE /\ "failure_output" \in DOMAIN entries[k]
                         /\ \E i \in from..Len(kept) :
                               /\ entries[k].reason = kept[i]
                               /\ IF hits = {} THEN i = Len(kept)
                                  ELSE i \in hits /\ \A j \in hits : j <= i

\* C6: more than 30 messages precede the first of two error markers, more than 20
\* of them pass the filter, one with a keyword falls out of the last 20, and the
\* reason is a line with a keyword
C6_Witness ==
    /\ pc = "done"
    /\ \E k \in 1..Len(entries) :
          LET msgs == MessagesOf(entries[k])
              kept == FilteredWindow(entries[k])
          IN  /\ IsFallbackEntry(entries[k])
              /\ FirstErrorOf(msgs) > CONTEXT_WINDOW
              /\ Len(kept) > CONTEXT_KEEP
              /\ MentionsFailure(msgs[1])
              /\ MentionsFailure(entries[k].reason)
              /\ \E i \in (FirstErrorOf(msgs) + 2)..Len(msgs) : str_startswith(msgs[i], "##[error]")

\* C6: a failed log whose filtered window is empty although lines precede the error
C6_WitnessEmpty ==
    /\ pc = "done"
    /\ \E k \in 1..Len(entries) :
          /\ IsFallbackEntry(entries[k])
          /\ FirstErrorOf(MessagesOf(entries[k])) > 0
          /\ FilteredWindow(entries[k]) = <<>>

(***************************************************************************)
(* C7                                                                      *)
(***************************************************************************)
IsFailedRecord(r) == r.status = "failed"

FailuresMatchTests(ts, fails) ==
    /\ fails = SelectSeq(ts, IsFailedRecord)
    /\ \A k \in 1..Len(ts) : "output" \in DOMAIN ts[k] => ts[k].status = "failed"

\* C7: failures is the subsequence of tests whose status is failed, in order, and
\* only failed records carry output: in the parser, in its result, in every entry.
C7_FailuresAreFailedTests ==
    /\ FailuresMatchTests(tests, failures)
    /\ pc = "reason" =>
          FailuresMatchTests(IF "tests" \in DOMAIN test_info THEN test_info.tests ELSE <<>>,
                             IF "failures" \in DOMAIN test_info THEN test_info.failures ELSE <<>>)
    /\ \A k \in 1..Len(entries) :
          FailuresMatchTests(IF "tests" \in DOMAIN entries[k] THEN entries[k].tests ELSE <<>>,
                             IF "failures" \in DOMAIN entries[k] THEN entries[k].failures ELSE <<>>)

\* C7: a result with a failed test without output between two with output, and a
\* passed test
C7_Witness ==
    /\ pc = "reason"
    /\ "failures" \in DOMAIN test_info
    /\ Len(test_info.failures) >= 2
    /\ Len(test_info.tests) > Len(test_info.failures)
    /\ \E k \in 1..Len(test_info.failures) : "output" \in DOMAIN test_info.failures[k]
    /\ \E k \in 1..Len(test_info.failures) : "output" \notin DOMAIN test_info.failures[k]

(***************************************************************************)
(* C8                                                                      *)
(***************************************************************************)
\* C8: the line that ends a failed test's output is not consumed.  The records of
\* tests are, in log order, the test-marker lines before the first section
\* boundary, one record each; the output of a failed test is made of the lines
\* strictly between its line and the next test-marker line or section boundary.
C8_TerminatorNotConsumed ==
    pc = "ptb_return" =>
        LET start   == TestStartOf(messages)
            stop    == FirstSectionFrom(messages, start)
            markers == MarkersIn(messages, start, stop)
        IN  /\ Len(tests) = Cardinality(markers)
            /\ \A n \in 1..Len(tests) :
                  LET at     == NthOf(markers, n)
                      line   == Stripped(messages, at)
                      next   == IF n < Len(tests) THEN NthOf(markers, n + 1) ELSE stop
                      body   == [i \in 1..(next - at - 1) |-> Stripped(messages, at + i)]
                  IN  /\ tests[n].name = MakeRecord(line).name
                      /\ tests[n].status = MakeRecord(line).status
                      /\ tests[n].status = "failed" =>
                            /\ "output" \in DOMAIN tests[n] <=> body # <<>>
                            /\ "output" \in DOMAIN tests[n] =>
                                  tests[n].output
                                      = clamp_text(str_strip(str_join("\n", body)), MAX_OUTPUT_CHARS)

\* C8: a failed test with output whose collection a test-marker line ended, that
\* line recorded next, and a later failed test whose collection a section
\* boundary ended
C8_Witness ==
    /\ pc = "ptb_return"
    /\ idx < Len(messages)
    /\ \E n \in 1..(Len(tests) - 1) :
          /\ tests[n].status = "failed"
          /\ "output" \in DOMAIN tests[n]
          /\ tests[n].output # ""
    /\ tests[Len(tests)].status = "failed"
    /\ "output" \in DOMAIN tests[Len(tests)]

(***************************************************************************)
(* C9                                                                      *)
(***************************************************************************)
\* C9: every output field of a record is a non-empty string.
C9_OutputNeverEmpty ==
    \A k \in 1..Len(tests) : "output" \in DOMAIN tests[k] => tests[k].output # ""

(***************************************************************************)
(* C10                                                                     *)
(***************************************************************************)
InParser == pc \in {"summary", "tests", "lookahead"}

\* how far the scan is from the end of the list, counted in steps of the loops
ScanRank ==
    IF pc = "summary" THEN 3 * (Len(messages) - idx) + 2
    ELSE IF pc = "lookahead" THEN 3 * (Len(messages) - lookahead) + 1
    ELSE 3 * (Len(messages) - idx)

\* what a step of the loops of parse_test_blocks does to the scan
ScanAdvances ==
    /\ (pc = "summary" /\ pc' = "summary") => idx' = idx + 1
    /\ (pc = "summary" /\ pc' = "tests") => idx' \in {idx, idx + 1}
    /\ (pc = "tests" /\ pc' = "tests") => idx' = idx + 1
    /\ (pc = "tests" /\ pc' = "lookahead") => idx' = idx /\ lookahead' = idx + 1
    /\ (pc = "lookahead" /\ pc' = "lookahead") => idx' = idx /\ lookahead' = lookahead + 1
    /\ (pc = "lookahead" /\ pc' = "tests") => idx' = lookahead /\ idx' > idx
    /\ (InParser /\ pc' = "ptb_return") => idx' = idx
    /\ (InParser /\ InParser') => ScanRank' < ScanRank

\* C10: the scan index grows with every iteration of the summary loop and of the
\* test-line loop, also across a failed test's lookahead; it never passes the end
\* of the list, every iteration moves the scan, and so the parser returns.
C10_ParserTerminates ==
    /\ [][ScanAdvances]_vars
    /\ [](InParser => (idx <= Len(messages) /\ ScanRank >= 0 /\ ENABLED <<Next>>_vars))

\* C10: the parser has returned from a scan that went through a failed test's
\* lookahead, blank lines and other lines, up to the end of the list
C10_Witness ==
    /\ pc = "ptb_return"
    /\ idx = Len(messages)
    /\ Len(failures) > 0
    /\ \E i \in TestStartOf(messages)..(Len(messages) - 1) : Stripped(messages, i) = ""
    /\ \E i \in TestStartOf(messages)..(Len(messages) - 1) : IsPlainLine(Stripped(messages, i))
====
